---- MODULE Spec2Model ----
(***************************************************************************)
(* The load of docs/source/conf.py, the Sphinx configuration of libmyrtx.  *)
(*                                                                         *)
(* Sphinx executes the file once, top to bottom, in a fresh namespace.     *)
(* The state is the interpreter's position in the file, the namespace     *)
(* built so far and the one part of the environment the file reads: the    *)
(* installation of the sphinx_rtd_theme package (imported on line 8 and    *)
(* asked for its theme path on line 41).                                   *)
(*                                                                         *)
(* Python values are tagged records, so that a value's type can be tested. *)
(* A str is a TLA+ string; the two version strings, whose characters the   *)
(* properties below look at, are sequences of one-character strings.       *)
(***************************************************************************)
EXTENDS Integers, Sequences, FiniteSets, TLC

VARIABLES pc, status, ns, assigned, themeInstall

vars == <<pc, status, ns, assigned, themeInstall>>

\* Number of places the theme package can be installed in (a bound of the
\* model; 0 stands for "not installed").
NumThemeDirs == 5

-----------------------------------------------------------------------------
\* Python values

PyStr(s) == [type |-> "str", val |-> s]

PyBool(b) == [type |-> "bool", val |-> b]

PyInt(i) == [type |-> "int", val |-> i]

PyNone == [type |-> "NoneType"]

PyList(s) == [type |-> "list", val |-> s]

PyTuple(s) == [type |-> "tuple", val |-> s]

PyDict(f) == [type |-> "dict", val |-> f]

PyModule(name) == [type |-> "module", val |-> name]

-----------------------------------------------------------------------------
\* The right-hand sides of the file's assignments

project == PyStr("libmyrtx")

copyright == PyStr("2025, Mike Großmann")

author_empty == PyStr("")

author == PyStr("libmyrtx Contributors")

version == PyStr(<<"0", ".", "1", ".", "0">>)

release == PyStr(<<"0", ".", "1", ".", "0">>)

extensions_dup ==
    PyList(<< PyStr("sphinx.ext.autodoc"), PyStr("sphinx.ext.viewcode"),
              PyStr("sphinx.ext.todo"), PyStr("sphinx.ext.coverage"),
              PyStr("sphinx.ext.mathjax"), PyStr("sphinx.ext.ifconfig"),
              PyStr("sphinx.ext.githubpages"), PyStr("sphinx_rtd_theme"),
              PyStr("sphinx.ext.autodoc") >>)

extensions ==
    PyList(<< PyStr("sphinx.ext.autodoc"), PyStr("sphinx.ext.viewcode"),
              PyStr("sphinx.ext.todo"), PyStr("sphinx.ext.coverage"),
              PyStr("sphinx.ext.mathjax"), PyStr("sphinx.ext.ifconfig"),
              PyStr("sphinx.ext.githubpages"), PyStr("sphinx_rtd_theme"),
              PyStr("breathe") >>)

templates_path == PyList(<< PyStr("_templates") >>)

exclude_patterns == PyList(<< >>)

html_theme == PyStr("sphinx_rtd_theme")

html_static_path == PyList(<< PyStr("_static") >>)

html_logo == PyNone

html_favicon == PyNone

html_theme_options_str_depth ==
    PyDict([logo_only |-> PyBool(FALSE),
            display_version |-> PyBool(TRUE),
            prev_next_buttons_location |-> PyStr("bottom"),
            style_external_links |-> PyBool(FALSE),
            collapse_navigation |-> PyBool(FALSE),
            sticky_navigation |-> PyBool(TRUE),
            navigation_depth |-> PyStr("4"),
            includehidden |-> PyBool(TRUE),
            titles_only |-> PyBool(FALSE)])

html_theme_options ==
    PyDict([logo_only |-> PyBool(FALSE),
            display_version |-> PyBool(TRUE),
            prev_next_buttons_location |-> PyStr("bottom"),
            style_external_links |-> PyBool(FALSE),
            collapse_navigation |-> PyBool(FALSE),
            sticky_navigation |-> PyBool(TRUE),
            navigation_depth |-> PyInt(4),
            includehidden |-> PyBool(TRUE),
            titles_only |-> PyBool(FALSE)])

breathe_projects == PyDict([libmyrtx |-> PyStr("../doxygen_output/xml/")])

breathe_default_project_other == PyStr("myrtx")

breathe_default_project == PyStr("libmyrtx")

breathe_default_members == PyTuple(<< PyStr("members"), PyStr("undoc-members") >>)

\* sphinx_rtd_theme.get_html_theme_path(): the directory the package is
\* installed in, which the environment decides.
ThemeDir(i) == PyStr("/env" \o ToString(i) \o "/site-packages")

html_theme_path(i) == PyList(<< ThemeDir(i) >>)

-----------------------------------------------------------------------------
\* The statements of the file, in file order

Import(line, name) ==
    [line |-> line, kind |-> "import", target |-> name, value |-> PyModule(name)]

Assign(line, name, value) ==
    [line |-> line, kind |-> "assign", target |-> name, value |-> value]

AssignCall(line, name) ==
    [line |-> line, kind |-> "call", target |-> name, value |-> PyNone]

Program_reassign ==
    << Import(6, "os"),
       Import(7, "sys"),
       Import(8, "sphinx_rtd_theme"),
       Assign(13, "project", project),
       Assign(14, "copyright", copyright),
       Assign(15, "author", author),
       Assign(16, "version", version),
       Assign(17, "release", release),
       Assign(22, "extensions", extensions),
       Assign(34, "templates_path", templates_path),
       Assign(35, "exclude_patterns", exclude_patterns),
       Assign(40, "html_theme", html_theme),
       AssignCall(41, "html_theme_path"),
       Assign(42, "html_static_path", html_static_path),
       Assign(44, "html_logo", html_logo),
       Assign(45, "html_favicon", html_favicon),
       Assign(48, "html_theme_options", html_theme_options),
       Assign(62, "breathe_projects", breathe_projects),
       Assign(65, "breathe_default_project", breathe_default_project),
       Assign(66, "breathe_default_members", breathe_default_members),
       Assign(67, "html_theme", PyStr("alabaster")) >>

Program ==
    << Import(6, "os"),
       Import(7, "sys"),
       Import(8, "sphinx_rtd_theme"),
       Assign(13, "project", project),
       Assign(14, "copyright", copyright),
       Assign(15, "author", author),
       Assign(16, "version", version),
       Assign(17, "release", release),
       Assign(22, "extensions", extensions),
       Assign(34, "templates_path", templates_path),
       Assign(35, "exclude_patterns", exclude_patterns),
       Assign(40, "html_theme", html_theme),
       AssignCall(41, "html_theme_path"),
       Assign(42, "html_static_path", html_static_path),
       Assign(44, "html_logo", html_logo),
       Assign(45, "html_favicon", html_favicon),
       Assign(48, "html_theme_options", html_theme_options),
       Assign(62, "breathe_projects", breathe_projects),
       Assign(65, "breathe_default_project", breathe_default_project),
       Assign(66, "breathe_default_members", breathe_default_members) >>

\* The names the file binds, and those of them that are configuration keys
Targets == { Program[i].target : i \in 1..Len(Program) }

ConfigKeys == { Program[i].target : i \in { j \in 1..Len(Program) : Program[j].kind # "import" } }

\* os and sys are part of the standard library; sphinx_rtd_theme is
\* importable only where it is installed.
Importable(name) == name = "sphinx_rtd_theme" => themeInstall # 0

\* Binding a name: Python's STORE_NAME, which replaces an earlier binding
Bind(name, value) ==
    /\ ns' = [n \in DOMAIN ns \cup {name} |-> IF n = name THEN value ELSE ns[n]]
    /\ assigned' = [assigned EXCEPT ![name] = @ + 1]

-----------------------------------------------------------------------------
\* The load

Init ==
    /\ pc = 1
    /\ status = "loading"
    /\ ns = << >>
    /\ assigned = [n \in Targets |-> 0]
    /\ themeInstall \in 0..NumThemeDirs

Running == status = "loading" /\ pc <= Len(Program)

\* import <module>, the module being found
ImportModule ==
    /\ Running
    /\ Program[pc].kind = "import"
    /\ Importable(Program[pc].target)
    /\ Bind(Program[pc].target, Program[pc].value)
    /\ pc' = pc + 1
    /\ UNCHANGED <<status, themeInstall>>

\* import <module> raising ImportError: the exception leaves the file and the
\* load is over.
ImportFails ==
    /\ Running
    /\ Program[pc].kind = "import"
    /\ ~Importable(Program[pc].target)
    /\ status' = "failed"
    /\ UNCHANGED <<pc, ns, assigned, themeInstall>>

\* <name> = <literal>
AssignLiteral ==
    /\ Running
    /\ Program[pc].kind = "assign"
    /\ Bind(Program[pc].target, Program[pc].value)
    /\ pc' = pc + 1
    /\ UNCHANGED <<status, themeInstall>>

\* html_theme_path = [sphinx_rtd_theme.get_html_theme_path()]
AssignThemePath ==
    /\ Running
    /\ Program[pc].kind = "call"
    /\ "sphinx_rtd_theme" \in DOMAIN ns
    /\ Bind(Program[pc].target, html_theme_path(themeInstall))
    /\ pc' = pc + 1
    /\ UNCHANGED <<status, themeInstall>>

\* The end of the file: the namespace is the configuration
EndOfFile ==
    /\ status = "loading"
    /\ pc = Len(Program) + 1
    /\ status' = "loaded"
    /\ UNCHANGED <<pc, ns, assigned, themeInstall>>

Next ==
    \/ ImportModule
    \/ ImportFails
    \/ AssignLiteral
    \/ AssignThemePath
    \/ EndOfFile

Spec == Init /\ [][Next]_vars

Loaded == status = "loaded"

-----------------------------------------------------------------------------
\* Properties

Range(s) == { s[i] : i \in 1..Len(s) }

IsNonEmptyStr(v) == v.type = "str" /\ Len(v.val) > 0

RequiredMetadata == {"project", "author", "version", "release"}

\* C1: once the file has been loaded, project, author, version and release
\* are each bound to a str that is not empty.
C1_RequiredMetadata ==
    Loaded => \A k \in RequiredMetadata : k \in DOMAIN ns /\ IsNonEmptyStr(ns[k])

C1_Witness == Loaded /\ RequiredMetadata \subseteq DOMAIN ns

\* C5: the file is executed statement by statement in file order, a bound
\* name is never rebound to another value, at the end of the load every
\* configuration key has been assigned exactly once, and once the load is
\* over the namespace does not change.
C5_AssignedOnce ==
    [][ /\ pc' \in {pc, pc + 1}
        /\ (pc' = pc + 1 /\ pc' <= Len(Program)) => Program[pc'].line > Program[pc].line
        /\ \A n \in DOMAIN ns : n \in DOMAIN ns' /\ ns'[n] = ns[n]
        /\ Loaded' => /\ pc' = Len(Program) + 1
                      /\ DOMAIN ns' = Targets
                      /\ \A k \in ConfigKeys : assigned'[k] = 1
        /\ Loaded => ns' = ns /\ assigned' = assigned ]_vars

C5_Witness == Loaded /\ ConfigKeys \subseteq DOMAIN ns /\ \A k \in ConfigKeys : assigned[k] > 0

\* The kind of value the theme documents for each of its options
ThemeOptionKinds ==
    [logo_only |-> "flag",
     display_version |-> "flag",
     prev_next_buttons_location |-> "placement",
     style_external_links |-> "flag",
     collapse_navigation |-> "flag",
     sticky_navigation |-> "flag",
     navigation_depth |-> "integer",
     includehidden |-> "flag",
     titles_only |-> "flag"]

Placements == {"bottom", "top", "both", "None"}

HasKind(v, kind) ==
    CASE kind = "flag" -> v.type = "bool"
      [] kind = "integer" -> v.type = "int"
      [] kind = "placement" -> v.type = "str" /\ v.val \in Placements

\* C6: html_theme_options is a dict with exactly the nine documented option
\* names, each flag a bool, navigation_depth an int and
\* prev_next_buttons_location one of the placement values.
C6_ThemeOptions ==
    Loaded =>
        /\ "html_theme_options" \in DOMAIN ns
        /\ ns["html_theme_options"].type = "dict"
        /\ DOMAIN ns["html_theme_options"].val = DOMAIN ThemeOptionKinds
        /\ \A k \in DOMAIN ThemeOptionKinds :
               HasKind(ns["html_theme_options"].val[k], ThemeOptionKinds[k])

C6_Witness == Loaded /\ "html_theme_options" \in DOMAIN ns

\* str.split(sep) on a sequence of characters
RECURSIVE Split(_, _)
Split(s, sep) ==
    IF \A i \in 1..Len(s) : s[i] # sep
    THEN << s >>
    ELSE LET i == CHOOSE j \in 1..Len(s) :
                      s[j] = sep /\ \A k \in 1..(j - 1) : s[k] # sep
         IN  << SubSeq(s, 1, i - 1) >> \o Split(SubSeq(s, i + 1, Len(s)), sep)

Digits == {"0", "1", "2", "3", "4", "5", "6", "7", "8", "9"}

IsNumeric(s) == Len(s) > 0 /\ \A i \in 1..Len(s) : s[i] \in Digits

IsPrefix(s, t) == Len(s) <= Len(t) /\ SubSeq(t, 1, Len(s)) = s

\* C7: version is the short X.Y version, two numeric components separated
\* by a dot, and release is the full version, which starts with it.
C7_VersionIsShortXY ==
    Loaded =>
        /\ Len(Split(ns["version"].val, ".")) = 2
        /\ \A i \in 1..Len(Split(ns["version"].val, ".")) :
               IsNumeric(Split(ns["version"].val, ".")[i])
        /\ IsPrefix(ns["version"].val, ns["release"].val)

\* C8: breathe_default_project is a key of breathe_projects and is the
\* project name.
C8_DefaultProjectConfigured ==
    Loaded =>
        /\ {"breathe_default_project", "breathe_projects", "project"} \subseteq DOMAIN ns
        /\ ns["breathe_default_project"].type = "str"
        /\ ns["breathe_projects"].type = "dict"
        /\ ns["breathe_default_project"].val \in DOMAIN ns["breathe_projects"].val
        /\ ns["breathe_default_project"] = ns["project"]

C8_Witness == Loaded /\ "breathe_default_project" \in DOMAIN ns /\ "breathe_projects" \in DOMAIN ns

BreatheKeys == {"breathe_projects", "breathe_default_project", "breathe_default_members"}

\* C9: extensions is a list without duplicates that contains the value of
\* html_theme and, the breathe keys being configured, 'breathe'.
C9_ExtensionsCoverThemeAndBreathe ==
    Loaded =>
        /\ "extensions" \in DOMAIN ns /\ "html_theme" \in DOMAIN ns
        /\ ns["extensions"].type = "list"
        /\ \A i, j \in 1..Len(ns["extensions"].val) :
               ns["extensions"].val[i] = ns["extensions"].val[j] => i = j
        /\ ns["html_theme"] \in Range(ns["extensions"].val)
        /\ BreatheKeys \subseteq DOMAIN ns
        /\ PyStr("breathe") \in Range(ns["extensions"].val)

C9_Witness == Loaded /\ "extensions" \in DOMAIN ns /\ BreatheKeys \subseteq DOMAIN ns

====
